---- MODULE Spec2Model ----
(***************************************************************************)
(* Host agent of the A2A multi-agent system: the entrypoint call_agent     *)
(* (multi-agents/host/host_agent_bedrock.py) and the construction of the   *)
(* root agent and its remote sub-agents (multi-agents/host/agent.py).      *)
(*                                                                         *)
(* call_agent is an async generator run on one event loop.  An invocation  *)
(* runs without interruption between two suspension points; it suspends at *)
(* every awaited network call (token POST, agent-card GET, message send)   *)
(* and at every yield.  The secret-store lookup (boto3) is synchronous.    *)
(* Each action below is the code between two suspension points.            *)
(***************************************************************************)
EXTENDS Integers, Sequences, FiniteSets, TLC

\* Number of call_agent invocations of one process.
MaxCalls == 2
\* Number of events run_async yields in one invocation at most.
MaxEvents == 1

Calls == 1..MaxCalls

\* config = load_config(): the configured sub-agents, in file order.
config ==
    << [name |-> "Monitoring_Agent", description |-> "monitoring"],
       [name |-> "OpsRemediation_Agent", description |-> "remediation"] >>

NumAgents == Len(config)
Agents == 1..NumAgents

\* context.session_id values: "" is an absent session id.
SessionIds == {"", "s1", "s2"}
\* payload.get("prompt") values: "" is an absent (or empty) prompt.
Prompts == {"", "q"}

\* Answers of the environment.
SsmResults == {"ok", "not_found"}
TokenResults == {"ok", "http_error", "no_access_token"}
CardResults == {"ok", "error"}

VARIABLES
    root_agent,     \* the module-level root_agent
    session_store,  \* session_service: the session ids that have a session
    created,        \* session id -> number of create_session_sync calls
    pc,             \* invocation -> where it is suspended
    session_id,     \* invocation -> context.session_id
    prompt,         \* invocation -> payload.get("prompt")
    k,              \* invocation -> index of the sub-agent being worked on
    sub_agents,     \* invocation -> the local list sub_agents of get_root_agent
    local_root,     \* invocation -> the local root_agent of get_agent_and_card
    runner,         \* invocation -> the agent its Runner was built with
    log,            \* invocation -> the requests it has issued, in order
    out,            \* invocation -> the events it has yielded, in order
    err,            \* invocation -> the exception raised out of it
    \* send_sync_message (host_invocation_example.py)
    agent_name,     \* its argument agent_name
    ss_pc,          \* where it is suspended
    ss_log,         \* the requests it has issued, in order
    stream,         \* the events client.send_message(msg) has to yield
    consumed,       \* the number of events the async for has taken
    ss_ret,         \* what it returned or raised
    \* format_agent_response (host_invocation_example.py)
    response,       \* its argument response
    fmt_pc,         \* "building" while the reply is put together, then "called"
    formatted,      \* what it returned or raised
    \* get_bearer_token (agent.py, host_invocation_example.py, streamlit_app.py)
    idp_config,     \* its argument idp_config
    copy,           \* which of the three copies runs
    tok_pc,         \* where it is suspended
    token_data,     \* the form posted to the token endpoint
    posts,          \* the number of POSTs sent to the token endpoint
    answer,         \* what the token endpoint answered
    tok_ret,        \* what it returned or raised
    \* get_root_agent and get_agents_cards (agent.py) over any configuration
    reg_config,     \* config['agents']: the configured names, in file order
    reg_pc,         \* where get_agent_and_card is suspended
    reg_subs,       \* the list sub_agents
    reg_k,          \* the index of the sub-agent get_agents_cards works on
    agents_info,    \* the dict agents_info: name -> agent_data
    \* load_api_keys_from_ssm (host_agent_bedrock.py)
    param_path,     \* parameters.get('google_api_key')
    region,         \* ssm_config.get('region', 'us-west-2')
    env_value,      \* os.getenv('GOOGLE_API_KEY')
    ak_pc,          \* where the call is
    ak_log,         \* the get_parameter requests sent to SSM
    ssm_answer,     \* what SSM answered
    api_keys,       \* the dict api_keys
    ak_ret,         \* "returned" or "raised"
    \* resume_analyzer_agent.py
    current_session,     \* the global current_session
    current_session_id,  \* the global current_session_id
    resume_key,          \* the argument resume_key of get_or_create_session
    job_description_key, \* its argument job_description_key
    create_called,       \* whether that call called create_memory_session
    gs_ret,              \* what that call returned or raised
    payload,             \* the payload of the running invoke
    inv_pc,              \* where invoke is suspended
    downloads,           \* the keys invoke downloaded from S3, in order
    consumed_events,     \* the events of agent_stream taken so far
    tool_name,           \* the local tool_name of invoke
    items,               \* the items invoke has yielded, in order
    inv_raised,          \* whether invoke raised to its caller
    inv_created,         \* the session ids invoke passed to create_memory_session
    inv_failure          \* the exception raised inside invoke, "" if none

host_vars == << root_agent, session_store, created, pc, session_id, prompt, k,
                sub_agents, local_root, runner, log, out, err >>

send_vars == << agent_name, ss_pc, ss_log, stream, consumed, ss_ret >>

format_vars == << response, fmt_pc, formatted >>

token_vars == << idp_config, copy, tok_pc, token_data, posts, answer, tok_ret >>

registry_vars == << reg_config, reg_pc, reg_subs, reg_k, agents_info >>

keys_vars == << param_path, region, env_value, ak_pc, ak_log, ssm_answer, api_keys, ak_ret >>

session_vars == << current_session, current_session_id, resume_key,
                   job_description_key, create_called, gs_ret >>

invoke_vars == << payload, inv_pc, downloads, consumed_events, tool_name, items,
                  inv_raised, inv_created, inv_failure >>

ra_vars == << session_vars, invoke_vars >>

client_vars == << send_vars, format_vars, token_vars, registry_vars, keys_vars, ra_vars >>

vars == << host_vars, client_vars >>

----------------------------------------------------------------------------
\* Values

\* Python's None for an agent.
None == [name |-> "None", sub_agents |-> << >>, by |-> 0, instruction |-> << >>]

NoToken == [by |-> 0, agent |-> 0, sid |-> ""]
NoClient == [by |-> 0, agent |-> 0, sid |-> "", token |-> NoToken, timeout |-> 0]
NoCard == [agent |-> 0, by |-> 0, fetch |-> 0]

\* A request sent to the outside: kind, the sub-agent it is for, the client
\* (with its default headers) it goes through, and the ordinal of the fetch.
Request(kind, a, client, n) ==
    [kind |-> kind, agent |-> a, client |-> client, n |-> n]

\* Events of the stream.
Event(kind, a) == [kind |-> kind, agent |-> a]

\* str.lower() on the configured names.
Lower(s) ==
    CASE s = "Monitoring_Agent" -> "monitoring_agent"
      [] s = "OpsRemediation_Agent" -> "opsremediation_agent"
      [] OTHER -> s

\* The events of invocation i that come from run_async.
RunnerEvents(i) == {n \in 1..Len(out[i]) : out[i][n].kind # "cards"}

NetKinds == {"ssm", "token", "card"}

\* The requests of invocation i of the given kind for sub-agent a.
Requests(i, kind, a) ==
    {n \in 1..Len(log[i]) : log[i][n].kind = kind /\ log[i][n].agent = a}

----------------------------------------------------------------------------
\* Pieces of call_agent and of agent.py

\* A call_agent without the session check.
NoSession_unchecked(s) == FALSE

\* `if not session_id`
NoSession(s) == s = ""

\* A call_agent that initialises on every invocation.
NeedsInit_always(r) == TRUE

\* `if not root_agent`
NeedsInit(r) == r = None

\* `if not query`
NoQuery(q) == q = ""

\* The bearer token returned to invocation i for sub-agent a.
BearerToken(i, a) == [by |-> i, agent |-> a, sid |-> session_id[i]]

\* One client, the first sub-agent's, handed to every sub-agent.
HttpxClient_shared(i, a, s) ==
    [by |-> i, agent |-> 1, sid |-> s, token |-> BearerToken(i, 1), timeout |-> 300]

\* A client built without the headers.
HttpxClient_noHeaders(i, a, s) ==
    [by |-> i, agent |-> a, sid |-> "", token |-> NoToken, timeout |-> 300]

\* httpx.AsyncClient(timeout=300.0, headers=headers)
HttpxClient(i, a, s) ==
    [by |-> i, agent |-> a, sid |-> s, token |-> BearerToken(i, a), timeout |-> 300]

\* The card answered to the n-th agent-card GET of invocation i for sub-agent a.
AgentCard(i, a, n) == [agent |-> a, by |-> i, fetch |-> n]

\* RemoteA2aAgent(name, description, agent_card=agent_card_url, a2a_client_factory)
RemoteA2aAgent(i, a, s) ==
    [name |-> Lower(config[a].name),
     description |-> config[a].description,
     agent_card_source |-> a,
     factory |-> [client |-> HttpxClient(i, a, s), streaming |-> FALSE],
     agent_card |-> NoCard]

\* A root agent that takes its sub-agents in reverse.
Agent_reversed(i, subs) ==
    LET rev == [n \in 1..Len(subs) |-> subs[Len(subs) + 1 - n]]
    IN  [name |-> "root_agent", sub_agents |-> rev, by |-> i,
         instruction |-> [n \in 1..Len(rev) |-> << rev[n].name, rev[n].description >>]]

\* Agent(model, name="root_agent", sub_agents, instruction)
Agent(i, subs) ==
    [name |-> "root_agent", sub_agents |-> subs, by |-> i,
     instruction |-> [n \in 1..Len(subs) |-> << subs[n].name, subs[n].description >>]]

Raise(i, e) ==
    /\ pc' = [pc EXCEPT ![i] = "raised"]
    /\ err' = [err EXCEPT ![i] = e]

\* create_simple_client_factory up to its first await: the IDP config is read
\* from the secret store and the token POST is sent.
BeginAgent(i, a, ssm) ==
    IF ssm = "ok"
    THEN /\ log' = [log EXCEPT ![i] = @ \o << Request("ssm", a, NoClient, 1),
                                              Request("token", a, NoClient, 1) >>]
         /\ pc' = [pc EXCEPT ![i] = "await_token"]
         /\ k' = [k EXCEPT ![i] = a]
         /\ err' = err
    ELSE /\ log' = [log EXCEPT ![i] = Append(@, Request("ssm", a, NoClient, 1))]
         /\ Raise(i, "ParameterNotFound")
         /\ k' = [k EXCEPT ![i] = a]

\* A lookup that never finds the session.
SessionFound_never(store, s) == FALSE

\* `in_memory_session = session_service.get_session_sync(...)` is not None
SessionFound(store, s) == s \in store

\* Lines 73-96 of call_agent: the prompt check, the session lookup and
\* creation, the Runner and the start of run_async.
ProcessQuery(i, s, q, agent) ==
    IF NoQuery(q)
    THEN /\ Raise(i, "MissingField")
         /\ UNCHANGED << session_store, created, runner >>
    ELSE /\ pc' = [pc EXCEPT ![i] = "running"]
         /\ err' = err
         /\ session_store' = session_store \cup {s}
         /\ created' = IF SessionFound(session_store, s) THEN created
                       ELSE [created EXCEPT ![s] = @ + 1]
         /\ runner' = [runner EXCEPT ![i] = agent]

----------------------------------------------------------------------------
\* Actions

HostInit ==
    /\ root_agent = None
    /\ session_store = {}
    /\ created = [s \in SessionIds |-> 0]
    /\ pc = [i \in Calls |-> "idle"]
    /\ session_id = [i \in Calls |-> ""]
    /\ prompt = [i \in Calls |-> ""]
    /\ k = [i \in Calls |-> 0]
    /\ sub_agents = [i \in Calls |-> << >>]
    /\ local_root = [i \in Calls |-> None]
    /\ runner = [i \in Calls |-> None]
    /\ log = [i \in Calls |-> << >>]
    /\ out = [i \in Calls |-> << >>]
    /\ err = [i \in Calls |-> "none"]

\* An event that client.send_message yields: its shape and its position.
NoEvent == [shape |-> "none", id |-> 0]

\* The outcome of a call that has not ended yet.
NotReturned == [kind |-> "none", exc |-> "", value |-> NoEvent]

NotFormatted == [kind |-> "none", exc |-> "", text |-> << >>]

NoIdpConfig == [resource_server_identifier |-> << >>, scopes |-> << >>]

NoForm == [grant_type |-> "", scope |-> << >>]

NoTokenReturned == [kind |-> "none", exc |-> "", token |-> ""]

NoAnswer == [status |-> 0, body |-> ""]

\* send_sync_message has not been called.
SendIdle ==
    /\ agent_name = ""
    /\ ss_pc = "idle"
    /\ ss_log = << >>
    /\ stream = << >>
    /\ consumed = 0
    /\ ss_ret = NotReturned

\* format_agent_response has not been called.
FormatIdle ==
    /\ response = [artifacts |-> << >>, history |-> << >>, has_history |-> TRUE]
    /\ fmt_pc = "idle"
    /\ formatted = NotFormatted

\* get_bearer_token has not been called.
TokenIdle ==
    /\ idp_config = NoIdpConfig
    /\ copy = ""
    /\ tok_pc = "idle"
    /\ token_data = NoForm
    /\ posts = 0
    /\ answer = NoAnswer
    /\ tok_ret = NoTokenReturned

RegistryIdle ==
    /\ reg_config = << >>
    /\ reg_pc = "idle"
    /\ reg_subs = << >>
    /\ reg_k = 0
    /\ agents_info = << >>

\* An optional value: Python's None, or a string.
PyNoneStr == [set |-> FALSE, value |-> << >>]
Some(v) == [set |-> TRUE, value |-> v]

\* `if x:` for an optional string
Truthy(x) == x.set /\ x.value # << >>

NoSsmAnswer == [kind |-> "none", value |-> << >>]

\* load_api_keys_from_ssm has not been called.
KeysIdle ==
    /\ param_path = PyNoneStr
    /\ region = ""
    /\ env_value = PyNoneStr
    /\ ak_pc = "idle"
    /\ ak_log = << >>
    /\ ssm_answer = NoSsmAnswer
    /\ api_keys = << >>
    /\ ak_ret = "none"

\* session ids: hashlib.md5(session_data.encode()).hexdigest()[:16]
md5_16(data) == [md5_16 |-> data]

NoSessionId == [set |-> FALSE, value |-> md5_16(<< >>)]

\* current_session = None
NoMemorySession == [session_id |-> NoSessionId, actor_id |-> ""]

\* session_manager.create_memory_session(actor_id=ACTOR_ID, session_id=session_id)
MemorySession(sid) == [session_id |-> [set |-> TRUE, value |-> sid], actor_id |-> "user_123"]

NoPayload == [kind |-> "none", resume_key |-> PyNoneStr, job_description_key |-> PyNoneStr]

\* The module-level state of resume_analyzer_agent.py after import; no
\* call is in progress.
ResumeIdle ==
    /\ current_session = NoMemorySession
    /\ current_session_id = NoSessionId
    /\ resume_key = PyNoneStr
    /\ job_description_key = PyNoneStr
    /\ create_called = FALSE
    /\ gs_ret = "none"
    /\ payload = NoPayload
    /\ inv_pc = "idle"
    /\ downloads = << >>
    /\ consumed_events = << >>
    /\ tool_name = "None"
    /\ items = << >>
    /\ inv_raised = FALSE
    /\ inv_created = << >>
    /\ inv_failure = ""

Init ==
    /\ HostInit
    /\ KeysIdle
    /\ ResumeIdle
    /\ SendIdle
    /\ FormatIdle
    /\ TokenIdle
    /\ RegistryIdle

Active(i) == pc[i] \notin {"idle", "done", "raised"}

\* call_agent is entered and runs to its first suspension point.
Start(i, s, q, ssm) ==
    /\ pc[i] = "idle"
    /\ UNCHANGED client_vars
    /\ \A j \in 1..(i - 1) : pc[j] # "idle"
    /\ session_id' = [session_id EXCEPT ![i] = s]
    /\ prompt' = [prompt EXCEPT ![i] = q]
    /\ IF NoSession(s)
       THEN /\ Raise(i, "MissingSession")
            /\ UNCHANGED << session_store, created, runner, log, k >>
       ELSE IF NeedsInit(root_agent)
       THEN /\ BeginAgent(i, 1, ssm)
            /\ UNCHANGED << session_store, created, runner >>
       ELSE /\ ProcessQuery(i, s, q, root_agent)
            /\ UNCHANGED << log, k >>
    /\ UNCHANGED << root_agent, sub_agents, local_root, out >>

\* The token endpoint answers: raise_for_status, token_response["access_token"],
\* the authenticated client is built and the agent-card GET is sent.
TokenResponse(i, r) ==
    /\ pc[i] = "await_token"
    /\ UNCHANGED client_vars
    /\ IF r = "ok"
       THEN /\ log' = [log EXCEPT ![i] =
                   Append(@, Request("card", k[i],
                                     HttpxClient(i, k[i], session_id[i]), 1))]
            /\ pc' = [pc EXCEPT ![i] = "await_card"]
            /\ err' = err
       ELSE /\ Raise(i, IF r = "http_error" THEN "HTTPStatusError" ELSE "KeyError")
            /\ log' = log
    /\ UNCHANGED << root_agent, session_store, created, session_id, prompt, k,
                    sub_agents, local_root, runner, out >>

\* The agent-card GET of create_simple_client_factory answers: the factory is
\* built, the card is returned to get_root_agent, which builds the
\* RemoteA2aAgent from the card URL and goes on with the next configured
\* agent.  After the last one the root agent is built and get_agents_cards
\* starts: agent._ensure_resolved() fetches the card of the first sub-agent
\* from its source URL through the client of its factory.
CardResponse(i, r, ssm) ==
    /\ pc[i] = "await_card"
    /\ UNCHANGED client_vars
    /\ IF r = "ok"
       THEN LET subs == Append(sub_agents[i], RemoteA2aAgent(i, k[i], session_id[i]))
            IN  /\ sub_agents' = [sub_agents EXCEPT ![i] = subs]
                /\ IF k[i] < NumAgents
                   THEN /\ BeginAgent(i, k[i] + 1, ssm)
                        /\ local_root' = local_root
                   ELSE /\ local_root' = [local_root EXCEPT ![i] = Agent(i, subs)]
                        /\ log' = [log EXCEPT ![i] =
                               Append(@, Request("card", 1, subs[1].factory.client, 2))]
                        /\ pc' = [pc EXCEPT ![i] = "await_resolve"]
                        /\ k' = [k EXCEPT ![i] = 1]
                        /\ err' = err
       ELSE /\ Raise(i, "A2AClientHTTPError")
            /\ UNCHANGED << sub_agents, local_root, log, k >>
    /\ UNCHANGED << root_agent, session_store, created, session_id, prompt,
                    runner, out >>

\* `root_agent, agents_cards = await get_agent_and_card(...)` and
\* `yield agents_cards`: the value the module-level root_agent takes.
Initialised(i, agent) == agent

\* A call_agent that assigns root_agent before the cards are resolved.
AfterInitFailure_assigned(i, r) == local_root[i]

\* The except clause of call_agent: the error is logged and raised again; the
\* assignment of line 61 has not happened.
AfterInitFailure(i, r) == r

\* The agent-card GET of agent._ensure_resolved() answers: the card is bound
\* to the sub-agent and the next sub-agent is resolved.  After the last one
\* get_agent_and_card returns, root_agent is assigned and agents_cards is
\* yielded.
ResolveResponse(i, r) ==
    /\ pc[i] = "await_resolve"
    /\ UNCHANGED client_vars
    /\ IF r = "ok"
       THEN LET agent == [local_root[i] EXCEPT
                             !.sub_agents[k[i]].agent_card = AgentCard(i, k[i], 2)]
            IN  /\ local_root' = [local_root EXCEPT ![i] = agent]
                /\ IF k[i] < NumAgents
                   THEN /\ log' = [log EXCEPT ![i] =
                               Append(@, Request("card", k[i] + 1,
                                   agent.sub_agents[k[i] + 1].factory.client, 2))]
                        /\ k' = [k EXCEPT ![i] = @ + 1]
                        /\ UNCHANGED << pc, root_agent, out >>
                   ELSE /\ root_agent' = Initialised(i, agent)
                        /\ out' = [out EXCEPT ![i] = Append(@, Event("cards", 0))]
                        /\ pc' = [pc EXCEPT ![i] = "yield_cards"]
                        /\ UNCHANGED << log, k >>
                /\ err' = err
       ELSE /\ Raise(i, "AgentCardResolutionError")
            /\ root_agent' = AfterInitFailure(i, root_agent)
            /\ UNCHANGED << local_root, log, k, out >>
    /\ UNCHANGED << session_store, created, session_id, prompt, sub_agents, runner >>

\* The caller asks for the next event after agents_cards.
Resume(i) ==
    /\ pc[i] = "yield_cards"
    /\ UNCHANGED client_vars
    /\ ProcessQuery(i, session_id[i], prompt[i], root_agent)
    /\ UNCHANGED << root_agent, session_id, prompt, k, sub_agents, local_root,
                    log, out >>

\* runner.run_async yields an event of the root agent's own model.
RunnerEvent(i) ==
    /\ pc[i] = "running"
    /\ UNCHANGED client_vars
    /\ Cardinality(RunnerEvents(i)) < MaxEvents
    /\ out' = [out EXCEPT ![i] = Append(@, Event("own", 0))]
    /\ UNCHANGED << root_agent, session_store, created, pc, session_id, prompt,
                    k, sub_agents, local_root, runner, log, err >>

\* The root agent hands the turn to sub-agent a: the message goes out through
\* the client of that sub-agent's factory and the reply is yielded as an
\* event of that sub-agent.
RunnerSend(i, a) ==
    /\ pc[i] = "running"
    /\ UNCHANGED client_vars
    /\ Cardinality(RunnerEvents(i)) < MaxEvents
    /\ a \in 1..Len(runner[i].sub_agents)
    /\ log' = [log EXCEPT ![i] =
           Append(@, Request("send", a, runner[i].sub_agents[a].factory.client, 1))]
    /\ out' = [out EXCEPT ![i] = Append(@, Event("sub", a))]
    /\ UNCHANGED << root_agent, session_store, created, pc, session_id, prompt,
                    k, sub_agents, local_root, runner, err >>

\* run_async is exhausted and call_agent returns.
RunnerFinish(i) ==
    /\ pc[i] = "running"
    /\ UNCHANGED client_vars
    /\ pc' = [pc EXCEPT ![i] = "done"]
    /\ UNCHANGED << root_agent, session_store, created, session_id, prompt, k,
                    sub_agents, local_root, runner, log, out, err >>

Step(i) ==
    \/ \E r \in TokenResults : TokenResponse(i, r)
    \/ \E r \in CardResults, ssm \in SsmResults : CardResponse(i, r, ssm)
    \/ \E r \in CardResults : ResolveResponse(i, r)
    \/ Resume(i)
    \/ RunnerEvent(i)
    \/ \E a \in Agents : RunnerSend(i, a)
    \/ RunnerFinish(i)

StartAny(i) ==
    \E s \in SessionIds, q \in Prompts, ssm \in SsmResults : Start(i, s, q, ssm)

\* Overlapping invocations: any suspended invocation may be resumed.
Next ==
    \/ \E i \in Calls : StartAny(i)
    \/ \E i \in Calls : Step(i)

Spec == Init /\ [][Next]_vars

\* Sequential invocations: an invocation starts when no other is in progress.
StartSeq(i) ==
    /\ \A j \in Calls : ~Active(j)
    /\ StartAny(i)

NextSeq ==
    \/ \E i \in Calls : StartSeq(i)
    \/ \E i \in Calls : Step(i)

SpecSeq == Init /\ [][NextSeq]_vars

----------------------------------------------------------------------------
\* send_sync_message (host_invocation_example.py)

\* Number of events client.send_message has to yield at most.
MaxStream == 3

\* DEFAULT_TIMEOUT = 300
DEFAULT_TIMEOUT == 300

\* agent_configs after load_agent_configs(): the configured names.
agent_configs == {config[a].name : a \in Agents}

AgentNames == agent_configs \cup {"Unknown_Agent"}

ConfigIndex(name) == CHOOSE a \in Agents : config[a].name = name

\* The shapes of an event: a Message, a (Task, UpdateEvent) pair, a
\* (Task, None) pair, and anything else.
Shapes == {"message", "pair_update", "pair_none", "other"}

\* The streams client.send_message may yield; an event carries its position.
Streams ==
    UNION {{[n \in 1..len |-> [shape |-> f[n], id |-> n]] : f \in [1..len -> Shapes]} :
           len \in 0..MaxStream}

\* Python's None as a returned value.
PyNone == [shape |-> "None", id |-> 0]

\* isinstance(event, Message)
IsMessage(e) == e.shape = "message"

\* isinstance(event, tuple) and len(event) == 2
IsPair(e) == e.shape \in {"pair_update", "pair_none"}

\* task, update_event = event
TaskOf(e) == [shape |-> "task", id |-> e.id]

\* A loop body that returns the pair instead of its task.
Reply_pair(e) == e

\* A loop body that has no branch for other shapes.
Reply_noFallback(e) ==
    IF IsMessage(e) THEN e ELSE IF IsPair(e) THEN TaskOf(e) ELSE PyNone

\* The body of the async for: what is returned for the event.
Reply(e) == IF IsMessage(e) THEN e ELSE IF IsPair(e) THEN TaskOf(e) ELSE e

\* headers and httpx.AsyncClient(timeout=DEFAULT_TIMEOUT, headers=headers),
\* with the session id str(uuid4()).
SyncClient(a) ==
    [by |-> 0, agent |-> a, sid |-> "uuid4",
     token |-> [by |-> 0, agent |-> a, sid |-> "uuid4"],
     timeout |-> DEFAULT_TIMEOUT]

SendRaise(e) ==
    /\ ss_pc' = "raised"
    /\ ss_ret' = [kind |-> "raise", exc |-> e, value |-> NoEvent]

\* send_sync_message is entered: the configuration is looked up, the IDP
\* config is read from the secret store and the token POST is sent.
SendSyncStart(name, ssm) ==
    /\ ss_pc = "idle"
    /\ agent_name' = name
    /\ IF name \notin agent_configs
       THEN /\ SendRaise("ValueError")
            /\ ss_log' = ss_log
       ELSE IF ssm # "ok"
       THEN /\ SendRaise("ParameterNotFound")
            /\ ss_log' = Append(ss_log, Request("ssm", ConfigIndex(name), NoClient, 1))
       ELSE /\ ss_pc' = "await_token"
            /\ ss_ret' = ss_ret
            /\ ss_log' = ss_log \o << Request("ssm", ConfigIndex(name), NoClient, 1),
                                      Request("token", ConfigIndex(name), NoClient, 1) >>
    /\ UNCHANGED << stream, consumed, host_vars, keys_vars, ra_vars, registry_vars, format_vars, token_vars >>

\* The token endpoint answers; the authenticated client is opened and the
\* agent-card GET is sent through it.
SendSyncToken(r) ==
    /\ ss_pc = "await_token"
    /\ IF r = "ok"
       THEN /\ ss_pc' = "await_card"
            /\ ss_ret' = ss_ret
            /\ ss_log' = Append(ss_log,
                   Request("card", ConfigIndex(agent_name),
                           SyncClient(ConfigIndex(agent_name)), 1))
       ELSE /\ SendRaise(IF r = "http_error" THEN "HTTPStatusError" ELSE "KeyError")
            /\ ss_log' = ss_log
    /\ UNCHANGED << agent_name, stream, consumed, host_vars, keys_vars, ra_vars, registry_vars, format_vars, token_vars >>

\* The agent card arrives; the client is created from the factory and the
\* message is sent.
SendSyncCard(r) ==
    /\ ss_pc = "await_card"
    /\ IF r = "ok"
       THEN /\ ss_pc' = "await_reply"
            /\ ss_ret' = ss_ret
            /\ ss_log' = Append(ss_log,
                   Request("send", ConfigIndex(agent_name),
                           SyncClient(ConfigIndex(agent_name)), 1))
       ELSE /\ SendRaise("A2AClientHTTPError")
            /\ ss_log' = ss_log
    /\ UNCHANGED << agent_name, stream, consumed, host_vars, keys_vars, ra_vars, registry_vars, format_vars, token_vars >>

\* The remote agent answers with the events evs: the async for takes the
\* first one and returns from its body; with no event the loop ends and the
\* function returns None.
SendSyncReply(evs) ==
    /\ ss_pc = "await_reply"
    /\ stream' = evs
    /\ ss_pc' = "returned"
    /\ IF evs = << >>
       THEN /\ consumed' = 0
            /\ ss_ret' = [kind |-> "return", exc |-> "", value |-> PyNone]
       ELSE /\ consumed' = 1
            /\ ss_ret' = [kind |-> "return", exc |-> "", value |-> Reply(evs[1])]
    /\ UNCHANGED << agent_name, ss_log, host_vars, keys_vars, ra_vars, registry_vars, format_vars, token_vars >>

NextSend ==
    \/ \E name \in AgentNames, ssm \in SsmResults : SendSyncStart(name, ssm)
    \/ \E r \in TokenResults : SendSyncToken(r)
    \/ \E r \in CardResults : SendSyncCard(r)
    \/ \E evs \in Streams : SendSyncReply(evs)

SpecSend == Init /\ [][NextSend]_vars

----------------------------------------------------------------------------
\* format_agent_response (host_invocation_example.py)

\* Number of artifacts, messages and parts of a task reply at most.
MaxReply == 5

\* Texts are sequences of characters.
Texts == {<< >>, << "a" >>, << "b" >>}

\* A part: a TextPart with its text, or a part without a text attribute.
Parts == [kind : {"text"}, text : Texts] \cup {[kind |-> "file", text |-> << >>]}

Roles == {"user", "agent"}

\* The number of artifacts, messages and parts of a reply.
RECURSIVE PartCount(_)
PartCount(xs) == IF xs = << >> THEN 0 ELSE Len(Head(xs).parts) + PartCount(Tail(xs))

Size(r) ==
    Len(r.artifacts) + Len(r.history) + PartCount(r.artifacts) + PartCount(r.history)

Returned(t) == [kind |-> "return", exc |-> "", text |-> t]

Raised(e) == [kind |-> "raise", exc |-> e, text |-> << >>]

\* part.root.text
RootText(p) == IF p.kind = "text" THEN Returned(p.text) ELSE Raised("AttributeError")

\* A test that looks at the artifacts only.
UsesArtifact_unguarded(r) == Len(r.artifacts) > 0

\* Lines 71-73: there is a first artifact and it has a part.
UsesArtifact(r) == Len(r.artifacts) > 0 /\ Len(r.artifacts[1].parts) > 0

\* Line 74: artifact.parts[0].root.text
ArtifactText(r) ==
    IF Len(r.artifacts[1].parts) = 0
    THEN Raised("IndexError")
    ELSE RootText(r.artifacts[1].parts[1])

\* Lines 77-81: the first parts of the agent messages that have parts, in
\* history order.
RECURSIVE AgentFirstParts(_)
AgentFirstParts(h) ==
    IF h = << >>
    THEN << >>
    ELSE (IF Head(h).role = "agent" /\ Len(Head(h).parts) > 0
          THEN << Head(h).parts[1] >>
          ELSE << >>) \o AgentFirstParts(Tail(h))

\* ''.join(...)
RECURSIVE Concat(_)
Concat(ts) == IF ts = << >> THEN << >> ELSE Head(ts) \o Concat(Tail(ts))

\* Lines 76-82: the fallback on the history.
HistoryText(r) ==
    IF ~r.has_history
    THEN Raised("TypeError")
    ELSE LET ps == AgentFirstParts(r.history)
         IN  IF \E n \in 1..Len(ps) : ps[n].kind # "text"
             THEN Raised("AttributeError")
             ELSE Returned(Concat([n \in 1..Len(ps) |-> ps[n].text]))

format_agent_response(r) == IF UsesArtifact(r) THEN ArtifactText(r) ELSE HistoryText(r)

\* A task reply starts to be put together, with or without a history list.
ReplyBegin(h) ==
    /\ fmt_pc = "idle"
    /\ fmt_pc' = "building"
    /\ response' = [artifacts |-> << >>, history |-> << >>, has_history |-> h]
    /\ UNCHANGED << formatted, host_vars, keys_vars, ra_vars, registry_vars, send_vars, token_vars >>

AddArtifact ==
    /\ fmt_pc = "building"
    /\ Size(response) < MaxReply
    /\ response' = [response EXCEPT !.artifacts = Append(@, [parts |-> << >>])]
    /\ UNCHANGED << fmt_pc, formatted, host_vars, keys_vars, ra_vars, registry_vars, send_vars, token_vars >>

AddArtifactPart(p) ==
    /\ fmt_pc = "building"
    /\ Size(response) < MaxReply
    /\ response.artifacts # << >>
    /\ response' = [response EXCEPT
           !.artifacts[Len(response.artifacts)].parts = Append(@, p)]
    /\ UNCHANGED << fmt_pc, formatted, host_vars, keys_vars, ra_vars, registry_vars, send_vars, token_vars >>

AddMessage(role) ==
    /\ fmt_pc = "building"
    /\ Size(response) < MaxReply
    /\ response.has_history
    /\ response' = [response EXCEPT !.history = Append(@, [role |-> role, parts |-> << >>])]
    /\ UNCHANGED << fmt_pc, formatted, host_vars, keys_vars, ra_vars, registry_vars, send_vars, token_vars >>

AddMessagePart(p) ==
    /\ fmt_pc = "building"
    /\ Size(response) < MaxReply
    /\ response.history # << >>
    /\ response' = [response EXCEPT
           !.history[Len(response.history)].parts = Append(@, p)]
    /\ UNCHANGED << fmt_pc, formatted, host_vars, keys_vars, ra_vars, registry_vars, send_vars, token_vars >>

\* format_agent_response(response) is called.
FormatAgentResponse ==
    /\ fmt_pc = "building"
    /\ fmt_pc' = "called"
    /\ formatted' = format_agent_response(response)
    /\ UNCHANGED << response, host_vars, keys_vars, ra_vars, registry_vars, send_vars, token_vars >>

NextFormat ==
    \/ \E h \in BOOLEAN : ReplyBegin(h)
    \/ AddArtifact
    \/ \E p \in Parts : AddArtifactPart(p)
    \/ \E role \in Roles : AddMessage(role)
    \/ \E p \in Parts : AddMessagePart(p)
    \/ FormatAgentResponse

SpecFormat == Init /\ [][NextFormat]_vars

----------------------------------------------------------------------------
\* get_bearer_token (agent.py, host_invocation_example.py, streamlit_app.py)

\* Length of a scope name or of a resource server identifier at most.
MaxStr == 1
\* Number of scopes of an identity-provider config at most.
MaxScopes == 2

Chars == {"a", "b"}

Strs == UNION {[1..len -> Chars] : len \in 0..MaxStr}

\* The identity-provider configs: idp_config.get("scopes", []) and
\* idp_config["resource_server_identifier"].
IdpConfigs ==
    [resource_server_identifier : Strs,
     scopes : UNION {[1..len -> Strs] : len \in 0..MaxScopes}]

Copies == {"agent", "example", "streamlit"}

\* A join that leaves the separator out.
Join_noSeparator(ts, sep) == Concat(ts)

\* sep.join(ts)
Join(ts, sep) ==
    Concat([n \in 1..Len(ts) |-> IF n = 1 THEN ts[n] ELSE sep \o ts[n]])

\* agent.py: " ".join([f"{resource_server}/{scope}" for scope in scopes])
scope_str_agent(cfg) ==
    Join([n \in 1..Len(cfg.scopes) |->
              cfg.resource_server_identifier \o << "/" >> \o cfg.scopes[n]],
         << " " >>)

\* host_invocation_example.py: the same line
scope_str_example(cfg) ==
    Join([n \in 1..Len(cfg.scopes) |->
              cfg.resource_server_identifier \o << "/" >> \o cfg.scopes[n]],
         << " " >>)

\* streamlit_app.py: the same line
scope_str_streamlit(cfg) ==
    Join([n \in 1..Len(cfg.scopes) |->
              cfg.resource_server_identifier \o << "/" >> \o cfg.scopes[n]],
         << " " >>)

scope_str(c, cfg) ==
    CASE c = "agent" -> scope_str_agent(cfg)
      [] c = "example" -> scope_str_example(cfg)
      [] OTHER -> scope_str_streamlit(cfg)

\* The answers of the token endpoint: the status and what the body holds.
Statuses == {200, 201, 302, 401, 500}
Bodies == {"access_token", "no_access_token", "not_json"}

\* A get_bearer_token that does not look at the status.
IsSuccess_unchecked(status) == TRUE

\* response.raise_for_status() passes
IsSuccess(status) == status \in 200..299

\* get_bearer_token is entered: the form is built and posted.
TokenStart(c, cfg) ==
    /\ tok_pc = "idle"
    /\ tok_pc' = "await_post"
    /\ copy' = c
    /\ idp_config' = cfg
    /\ token_data' = [grant_type |-> "client_credentials", scope |-> scope_str(c, cfg)]
    /\ posts' = posts + 1
    /\ UNCHANGED << answer, tok_ret, host_vars, keys_vars, ra_vars, registry_vars, send_vars, format_vars >>

\* The token endpoint answers: raise_for_status(), response.json(),
\* token_response["access_token"].
TokenAnswer(status, body) ==
    /\ tok_pc = "await_post"
    /\ answer' = [status |-> status, body |-> body]
    /\ IF ~IsSuccess(status)
       THEN /\ tok_pc' = "raised"
            /\ tok_ret' = [kind |-> "raise", exc |-> "HTTPStatusError", token |-> ""]
       ELSE IF body = "not_json"
       THEN /\ tok_pc' = "raised"
            /\ tok_ret' = [kind |-> "raise", exc |-> "JSONDecodeError", token |-> ""]
       ELSE IF body = "no_access_token"
       THEN /\ tok_pc' = "raised"
            /\ tok_ret' = [kind |-> "raise", exc |-> "KeyError", token |-> ""]
       ELSE /\ tok_pc' = "returned"
            /\ tok_ret' = [kind |-> "return", exc |-> "", token |-> "token"]
    /\ UNCHANGED << idp_config, copy, token_data, posts, host_vars, keys_vars, ra_vars, registry_vars, send_vars,
                    format_vars >>

\* The token endpoint does not answer within the client's timeout.
TokenTimeout ==
    /\ tok_pc = "await_post"
    /\ tok_pc' = "raised"
    /\ tok_ret' = [kind |-> "raise", exc |-> "TimeoutException", token |-> ""]
    /\ UNCHANGED << idp_config, copy, token_data, posts, answer, host_vars, keys_vars, ra_vars, registry_vars,
                    send_vars, format_vars >>

NextToken ==
    \/ tok_pc = "idle" /\ \E c \in Copies, cfg \in IdpConfigs : TokenStart(c, cfg)
    \/ \E status \in Statuses, body \in Bodies : TokenAnswer(status, body)
    \/ TokenTimeout

SpecToken == Init /\ [][NextToken]_vars

----------------------------------------------------------------------------
\* The names of the registry (agent.py: get_root_agent, get_agents_cards)

\* Length of a configured agent name at most.
MaxName == 2
\* Number of configured agents at most.
MaxAgents == 2

NameChars == {"A", "a", "_"}

Names == UNION {[1..len -> NameChars] : len \in 1..MaxName}

\* The values of config['agents'], by the names of the agents.
Configs == UNION {[1..len -> Names] : len \in 0..MaxAgents}

\* str.lower()
str_lower(s) == [n \in 1..Len(s) |-> IF s[n] = "A" THEN "a" ELSE s[n]]

\* str.replace(old, new)
str_replace(s, old, new) == [n \in 1..Len(s) |-> IF s[n] = old THEN new ELSE s[n]]

\* agent_config['name'].lower().replace('_', '_')
proxy_name(name) == str_replace(str_lower(name), "_", "_")

\* agents_info[name] = agent_data
DictSet(d, key, value) ==
    [x \in DOMAIN d \cup {key} |-> IF x = key THEN value ELSE d[x]]

\* get_agent_and_card is entered with a configuration.
RegistryStart(cfg) ==
    /\ reg_pc = "idle"
    /\ reg_config' = cfg
    /\ reg_pc' = "building"
    /\ UNCHANGED << reg_subs, reg_k, agents_info, host_vars, keys_vars, ra_vars, send_vars,
                    format_vars, token_vars >>

\* One turn of the loop of get_root_agent: the proxy of the next configured
\* agent is built and appended.
RegistryAddAgent ==
    /\ reg_pc = "building"
    /\ Len(reg_subs) < Len(reg_config)
    /\ LET n == Len(reg_subs) + 1
       IN  reg_subs' = Append(reg_subs,
               [name |-> proxy_name(reg_config[n]), agent_card_source |-> n])
    /\ UNCHANGED << reg_config, reg_pc, reg_k, agents_info, host_vars, keys_vars, ra_vars,
                    send_vars, format_vars, token_vars >>

\* The loop is over: the root agent is built, get_root_agent returns and
\* get_agents_cards starts on the first sub-agent.
RegistryBuilt ==
    /\ reg_pc = "building"
    /\ Len(reg_subs) = Len(reg_config)
    /\ reg_pc' = "cards"
    /\ reg_k' = 1
    /\ UNCHANGED << reg_config, reg_subs, agents_info, host_vars, keys_vars, ra_vars, send_vars,
                    format_vars, token_vars >>

\* One turn of the loop of get_agents_cards.
RegistryAddCard ==
    /\ reg_pc = "cards"
    /\ reg_k <= Len(reg_subs)
    /\ agents_info' = DictSet(agents_info, reg_subs[reg_k].name,
                              [agent_card_url |-> reg_subs[reg_k].agent_card_source])
    /\ reg_k' = reg_k + 1
    /\ UNCHANGED << reg_config, reg_pc, reg_subs, host_vars, keys_vars, ra_vars, send_vars,
                    format_vars, token_vars >>

\* get_agents_cards returns agents_info.
RegistryReturn ==
    /\ reg_pc = "cards"
    /\ reg_k > Len(reg_subs)
    /\ reg_pc' = "done"
    /\ UNCHANGED << reg_config, reg_subs, reg_k, agents_info, host_vars, keys_vars, ra_vars,
                    send_vars, format_vars, token_vars >>

NextRegistry ==
    \/ reg_pc = "idle" /\ \E cfg \in Configs : RegistryStart(cfg)
    \/ RegistryAddAgent
    \/ RegistryBuilt
    \/ RegistryAddCard
    \/ RegistryReturn

SpecRegistry == Init /\ [][NextRegistry]_vars

----------------------------------------------------------------------------
\* load_api_keys_from_ssm and get_parameter_from_ssm (host_agent_bedrock.py)

\* An optional string of the configuration or of the environment.
OptStrs == {PyNoneStr} \cup {Some(v) : v \in Strs}

Regions == {"us-west-2", "eu-west-1"}

\* What ssm_client.get_parameter does: the value, a ClientError with one of
\* the codes get_parameter_from_ssm tells apart, or another exception.
SsmErrors ==
    {"ParameterNotFound", "AccessDeniedException", "InternalServerError",
     "EndpointConnectionError"}

SsmAnswers ==
    {[kind |-> "ok", value |-> v] : v \in Strs}
        \cup {[kind |-> e, value |-> << >>] : e \in SsmErrors}

\* value = os.getenv(env_var); if value: api_keys[env_var] = value
EnvFallback(keys, env) ==
    IF Truthy(env) THEN DictSet(keys, "GOOGLE_API_KEY", env.value) ELSE keys

\* A handler that lets the SSM error out instead of falling back.
AfterSsmAnswer_noFallback(keys, ans, env) ==
    IF ans.kind = "ok"
    THEN [ret |-> "returned", keys |-> DictSet(keys, "GOOGLE_API_KEY", ans.value)]
    ELSE [ret |-> "raised", keys |-> keys]

\* api_keys[env_var] = get_parameter_from_ssm(param_path, region), and the
\* `except Exception` clause around it.
AfterSsmAnswer(keys, ans, env) ==
    IF ans.kind = "ok"
    THEN [ret |-> "returned", keys |-> DictSet(keys, "GOOGLE_API_KEY", ans.value)]
    ELSE [ret |-> "returned", keys |-> EnvFallback(keys, env)]

\* load_api_keys_from_ssm is called: with a parameter path the parameter is
\* requested from SSM, without one the environment variable is read.
LoadKeysStart(path, reg, env) ==
    /\ ak_pc = "idle"
    /\ param_path' = path
    /\ region' = reg
    /\ env_value' = env
    /\ IF Truthy(path)
       THEN /\ ak_pc' = "get_parameter"
            /\ ak_log' = Append(ak_log, [name |-> path.value, region |-> reg])
            /\ UNCHANGED << api_keys, ak_ret >>
       ELSE /\ ak_pc' = "returned"
            /\ ak_ret' = "returned"
            /\ api_keys' = EnvFallback(api_keys, env)
            /\ ak_log' = ak_log
    /\ UNCHANGED << ssm_answer, host_vars, send_vars, format_vars, token_vars,
                    registry_vars, ra_vars >>

\* get_parameter answers and load_api_keys_from_ssm returns.
LoadKeysAnswer(ans) ==
    /\ ak_pc = "get_parameter"
    /\ ssm_answer' = ans
    /\ LET res == AfterSsmAnswer(api_keys, ans, env_value)
       IN  /\ ak_ret' = res.ret
           /\ ak_pc' = res.ret
           /\ api_keys' = res.keys
    /\ UNCHANGED << param_path, region, env_value, ak_log, host_vars, send_vars,
                    format_vars, token_vars, registry_vars, ra_vars >>

NextKeys ==
    \/ ak_pc = "idle" /\ \E path, env \in OptStrs, reg \in Regions : LoadKeysStart(path, reg, env)
    \/ \E ans \in SsmAnswers : LoadKeysAnswer(ans)

SpecKeys == Init /\ [][NextKeys]_vars

----------------------------------------------------------------------------
\* get_or_create_session (resume_analyzer_agent.py)

\* The S3 keys of the payloads: absent, empty, and keys with and without the
\* separator of session_data.
ResumeKeys ==
    {PyNoneStr, Some(<< >>), Some(<< "r" >>), Some(<< "s" >>), Some(<< "r", "_", "j" >>)}
JobKeys == {PyNoneStr, Some(<< >>), Some(<< "j" >>), Some(<< "j", "_", "j" >>)}

CreateResults == {"ok", "error"}

\* session_data = f"{resume_key}_{job_description_key or 'no_job'}"
SessionData(rk, jk) ==
    rk.value \o << "_" >>
        \o (IF Truthy(jk) THEN jk.value ELSE << "n", "o", "_", "j", "o", "b" >>)

\* session_id = hashlib.md5(session_data.encode()).hexdigest()[:16]
SessionIdOf(rk, jk) == md5_16(SessionData(rk, jk))

\* A get_or_create_session that creates a session on every upload.
NeedsNewSession_always(sid, cur) == TRUE

\* `if session_id != current_session_id`
NeedsNewSession(sid, cur) == [set |-> TRUE, value |-> sid] # cur

\* The body of get_or_create_session: whether create_memory_session is
\* called, the globals afterwards and how the call ends; r is what
\* create_memory_session does.
SessionAfter(rk, jk, r, cur, cur_id) ==
    IF Truthy(rk) /\ NeedsNewSession(SessionIdOf(rk, jk), cur_id)
    THEN IF r = "ok"
         THEN [called |-> TRUE, session |-> MemorySession(SessionIdOf(rk, jk)),
               session_id |-> [set |-> TRUE, value |-> SessionIdOf(rk, jk)],
               ret |-> "returned"]
         ELSE [called |-> TRUE, session |-> cur, session_id |-> cur_id,
               ret |-> "raised"]
    ELSE [called |-> FALSE, session |-> cur, session_id |-> cur_id,
          ret |-> "returned"]

\* One call of get_or_create_session(resume_key, job_description_key).
GetOrCreateSession(rk, jk, r) ==
    /\ resume_key' = rk
    /\ job_description_key' = jk
    /\ LET res == SessionAfter(rk, jk, r, current_session, current_session_id)
       IN  /\ create_called' = res.called
           /\ current_session' = res.session
           /\ current_session_id' = res.session_id
           /\ gs_ret' = res.ret
    /\ UNCHANGED << invoke_vars, host_vars, send_vars, format_vars, token_vars,
                    registry_vars, keys_vars >>

NextSession ==
    \E rk \in ResumeKeys, jk \in JobKeys, r \in CreateResults : GetOrCreateSession(rk, jk, r)

SpecSession == Init /\ [][NextSession]_vars

----------------------------------------------------------------------------
\* invoke (resume_analyzer_agent.py)

\* Number of events agent_stream yields in one invocation at most.
MaxAgentEvents == 3

\* The payloads: a follow-up query, a document payload, and a payload that
\* is not a mapping.
Payloads ==
    {[kind |-> "query", resume_key |-> PyNoneStr, job_description_key |-> PyNoneStr],
     [kind |-> "invalid", resume_key |-> PyNoneStr, job_description_key |-> PyNoneStr]}
        \cup {[kind |-> "document", resume_key |-> rk, job_description_key |-> jk] :
                  rk \in {PyNoneStr, Some(<< >>), Some(<< "r" >>)},
                  jk \in {PyNoneStr, Some(<< "j" >>)}}

\* What the steps before the stream do: all succeed, the resume download
\* fails, the job description download fails, the agent cannot be built.
BuildResults == {"ok", "download_error", "job_download_error", "agent_error"}

\* The events of agent_stream: event["current_tool_use"]["name"] and
\* event["data"], "absent" for a key the event does not have.
ToolNames == {"X", "Y"}
Chunks == {"d1", "d2"}
AgentEvents ==
    [tool : ToolNames \cup {"absent"}, data : Chunks \cup {"absent"}]

ToolNotice(name) == [kind |-> "notice", text |-> name]
DataItem(chunk) == [kind |-> "data", text |-> chunk]
\* f"Error: {str(e)}"
ErrorItem(msg) == [kind |-> "error", text |-> msg]

\* An except clause that raises again.
Caught_reraised(msg) == [raised |-> TRUE, items |-> << >>]

\* `except Exception as e: yield f"Error: {str(e)}"`
Caught(msg) == [raised |-> FALSE, items |-> << ErrorItem(msg) >>]

\* A loop that announces every tool event.
Announces_always(ev, tname) == ev.tool # "absent"

\* `"current_tool_use" in event and event["current_tool_use"].get("name") != tool_name`
Announces(ev, tname) == ev.tool # "absent" /\ ev.tool # tname

\* The items one event makes the loop yield.
EventItems(ev, tname) ==
    (IF Announces(ev, tname) THEN << ToolNotice(ev.tool) >> ELSE << >>)
        \o (IF ev.data # "absent" THEN << DataItem(ev.data) >> ELSE << >>)

\* tool_name after the event.
ToolNameAfter(ev, tname) ==
    IF ev.data # "absent" THEN "None"
    ELSE IF Announces(ev, tname) THEN ev.tool
    ELSE tname

\* invoke ends with the exception msg caught.
InvokeFails(msg) ==
    /\ inv_pc' = "done"
    /\ inv_failure' = msg
    /\ inv_raised' = Caught(msg).raised
    /\ items' = Caught(msg).items

\* process_resume_with_strands_agents: the downloads and the supervisor
\* agent; b is what these steps do.
ProcessResume(p, b) ==
    IF b = "download_error"
    THEN /\ downloads' = << p.resume_key >>
         /\ InvokeFails("download_s3_file")
    ELSE IF Truthy(p.job_description_key) /\ b = "job_download_error"
    THEN /\ downloads' = << p.resume_key, p.job_description_key >>
         /\ InvokeFails("download_s3_file")
    ELSE /\ downloads' = IF Truthy(p.job_description_key)
                         THEN << p.resume_key, p.job_description_key >>
                         ELSE << p.resume_key >>
         /\ IF b = "agent_error"
            THEN InvokeFails("create_supervisor_agent")
            ELSE /\ inv_pc' = "streaming"
                 /\ items' = << >>
                 /\ inv_failure' = ""
                 /\ inv_raised' = FALSE

\* invoke is entered and runs until it asks agent_stream for its first
\* event: r is what create_memory_session does, b what the downloads and
\* the construction of the agent do.
InvokeStart(p, r, b) ==
    /\ inv_pc = "idle"
    /\ payload' = p
    /\ consumed_events' = << >>
    /\ tool_name' = "None"
    /\ IF p.kind = "invalid"
       THEN /\ InvokeFails("TypeError")
            /\ UNCHANGED << current_session, current_session_id >>
            /\ downloads' = << >>
            /\ inv_created' = << >>
       ELSE IF p.kind = "query"
       THEN /\ UNCHANGED << current_session, current_session_id >>
            /\ downloads' = << >>
            /\ inv_created' = << >>
            /\ IF b = "agent_error"
               THEN InvokeFails("Agent")
               ELSE /\ inv_pc' = "streaming"
                    /\ items' = << >>
                    /\ inv_failure' = ""
                    /\ inv_raised' = FALSE
       ELSE LET res == SessionAfter(p.resume_key, p.job_description_key, r,
                                    current_session, current_session_id)
            IN  /\ current_session' = res.session
                /\ current_session_id' = res.session_id
                /\ inv_created' =
                       IF res.called
                       THEN << SessionIdOf(p.resume_key, p.job_description_key) >>
                       ELSE << >>
                /\ IF res.ret = "raised"
                   THEN /\ InvokeFails("create_memory_session")
                        /\ downloads' = << >>
                   ELSE IF ~Truthy(p.resume_key)
                   THEN /\ InvokeFails("resume_key is required in payload")
                        /\ downloads' = << >>
                   ELSE ProcessResume(p, b)
    /\ UNCHANGED << resume_key, job_description_key, create_called, gs_ret,
                    host_vars, send_vars, format_vars, token_vars, registry_vars,
                    keys_vars >>

\* agent_stream yields the event ev: one turn of the async for.
StreamEvent(ev) ==
    /\ inv_pc = "streaming"
    /\ Len(consumed_events) < MaxAgentEvents
    /\ consumed_events' = Append(consumed_events, ev)
    /\ items' = items \o EventItems(ev, tool_name)
    /\ tool_name' = ToolNameAfter(ev, tool_name)
    /\ UNCHANGED << payload, inv_pc, downloads, inv_raised, inv_created,
                    inv_failure, session_vars, host_vars, send_vars, format_vars,
                    token_vars, registry_vars, keys_vars >>

\* agent_stream raises: the inner except clause.
StreamError ==
    /\ inv_pc = "streaming"
    /\ inv_pc' = "done"
    /\ inv_failure' = "agent_stream"
    /\ inv_raised' = Caught("agent_stream").raised
    /\ items' = items \o Caught("agent_stream").items
    /\ UNCHANGED << payload, downloads, consumed_events, tool_name, inv_created,
                    session_vars, host_vars, send_vars, format_vars, token_vars,
                    registry_vars, keys_vars >>

\* agent_stream is exhausted and invoke returns.
StreamEnd ==
    /\ inv_pc = "streaming"
    /\ inv_pc' = "done"
    /\ UNCHANGED << payload, downloads, consumed_events, tool_name, items,
                    inv_raised, inv_created, inv_failure, session_vars, host_vars,
                    send_vars, format_vars, token_vars, registry_vars, keys_vars >>

\* The caller has taken the last item: the generator is finished and its
\* locals are gone; the globals stay.
InvokeExit ==
    /\ inv_pc = "done"
    /\ inv_pc' = "idle"
    /\ payload' = NoPayload
    /\ downloads' = << >>
    /\ consumed_events' = << >>
    /\ tool_name' = "None"
    /\ items' = << >>
    /\ inv_raised' = FALSE
    /\ inv_created' = << >>
    /\ inv_failure' = ""
    /\ UNCHANGED << session_vars, host_vars, send_vars, format_vars, token_vars,
                    registry_vars, keys_vars >>

NextInvoke ==
    \/ inv_pc = "idle" /\ \E p \in Payloads, r \in CreateResults, b \in BuildResults : InvokeStart(p, r, b)
    \/ InvokeExit
    \/ \E ev \in AgentEvents : StreamEvent(ev)
    \/ StreamError
    \/ StreamEnd

SpecInvoke == Init /\ [][NextInvoke]_vars

----------------------------------------------------------------------------
\* Properties

Started(i) == pc[i] # "idle"

\* The secret-store, token and agent-card requests of invocation i.
NetRequests(i) == {n \in 1..Len(log[i]) : log[i][n].kind \in NetKinds}

Sends(i) == {n \in 1..Len(log[i]) : log[i][n].kind = "send"}

\* Invocation i has assigned root_agent (and yielded agents_cards).
InitDone(i) == \E n \in 1..Len(out[i]) : out[i][n].kind = "cards"

InitErrors ==
    {"ParameterNotFound", "HTTPStatusError", "KeyError", "A2AClientHTTPError",
     "AgentCardResolutionError"}

\* Invocation i raised out of the initialisation of the root agent.
FailedInit(i) == pc[i] = "raised" /\ err[i] \in InitErrors

\* C1: an invocation whose payload has no prompt issues no IDP-config
\* lookup, no token request and no agent-card request.
C1_NoContactWithoutPrompt ==
    \A i \in Calls :
        (Started(i) /\ prompt[i] = "") => NetRequests(i) = {}

\* C2: an invocation whose prompt is absent or empty yields no event, never
\* starts the runner and creates no session.
C2_NoPartialProcessing ==
    \A i \in Calls :
        (Started(i) /\ prompt[i] = "") =>
            /\ out[i] = << >>
            /\ runner[i] = None
            /\ session_id[i] \in session_store =>
                   \E j \in Calls \ {i} :
                       session_id[j] = session_id[i] /\ runner[j] # None

\* C3: an invocation without session_id fails with the missing-session error
\* before anything else: it issues no request, yields no event, starts no
\* runner, creates no session, and the step leaves root_agent unchanged.
C3_State ==
    \A i \in Calls :
        (Started(i) /\ session_id[i] = "") =>
            /\ pc[i] = "raised"
            /\ err[i] = "MissingSession"
            /\ log[i] = << >>
            /\ out[i] = << >>
            /\ runner[i] = None
            /\ session_id[i] \notin session_store
            /\ root_agent.by # i

C3_Step ==
    \A i \in Calls :
        (~Started(i) /\ Started(i)' /\ session_id'[i] = "") =>
            /\ root_agent' = root_agent
            /\ session_store' = session_store
            /\ created' = created

C3_MissingSessionFailsFirst == []C3_State /\ [][C3_Step]_vars

C3_Witness ==
    \E i, j \in Calls :
        /\ i < j
        /\ InitDone(i)
        /\ err[j] = "MissingSession"

\* C4: in a sequential series of invocations, once one invocation has
\* initialised the root agent, root_agent never changes again, and every
\* later invocation issues no IDP-config lookup, token request or agent-card
\* request and runs with that same root agent.
C4_State ==
    \A i, j \in Calls :
        (InitDone(i) /\ i < j /\ Started(j)) =>
            /\ NetRequests(j) = {}
            /\ ~InitDone(j)
            /\ root_agent.by = i
            /\ runner[j] \in {None, root_agent}

C4_Step == root_agent # None => root_agent' = root_agent

C4_ResolutionIdempotent == []C4_State /\ [][C4_Step]_vars

C4_Witness ==
    \E i, j \in Calls :
        /\ i < j
        /\ InitDone(i)
        /\ pc[j] = "done"
        /\ Sends(j) # {}

\* C5: when invocations overlap, the root agent is built and assigned by at
\* most one of them.
C5_InitAtMostOnce == Cardinality({i \in Calls : InitDone(i)}) <= 1

\* C6: every agent-card request and every message of an invocation goes
\* through a client that carries the invocation's own session id and a token
\* fetched under that session.
C6_ClientsOfOwnSession ==
    \A i \in Calls : \A n \in 1..Len(log[i]) :
        log[i][n].kind \in {"card", "send"} =>
            /\ log[i][n].client.sid = session_id[i]
            /\ log[i][n].client.token.sid = session_id[i]

\* C7: a failed initialisation raises out of call_agent having yielded
\* nothing and leaves root_agent unset; the next invocation starts the
\* initialisation again from the first sub-agent; an invocation whose
\* initialisation succeeds goes on to process its prompt with a root agent
\* whose sub-agents are all resolved.
C7_State ==
    \A i \in Calls :
        /\ FailedInit(i) =>
               /\ out[i] = << >>
               /\ runner[i] = None
               /\ root_agent.by # i
               /\ (\A j \in Calls : j > i => ~Started(j)) => root_agent = None
        /\ (Started(i) /\ session_id[i] # ""
                /\ \A h \in 1..(i - 1) : ~InitDone(h)) =>
               /\ Len(log[i]) >= 1
               /\ log[i][1] = Request("ssm", 1, NoClient, 1)
        /\ (InitDone(i) /\ prompt[i] # "" /\ pc[i] # "yield_cards") =>
               /\ pc[i] \in {"running", "done"}
               /\ runner[i] = root_agent
               /\ root_agent.by = i
               /\ Len(runner[i].sub_agents) = NumAgents
               /\ \A a \in Agents : runner[i].sub_agents[a].agent_card # NoCard

C7_Step ==
    \A i \in Calls :
        (~FailedInit(i) /\ FailedInit(i)') => root_agent' = root_agent

C7_FailedInitRetryable == []C7_State /\ [][C7_Step]_vars

C7_Witness ==
    \E i, j \in Calls :
        /\ i < j
        /\ FailedInit(i)
        /\ err[i] = "HTTPStatusError"
        /\ InitDone(j)
        /\ pc[j] = "done"
        /\ Sends(j) # {}

\* C8: a failure of the token fetch or of the card resolution of one
\* sub-agent is not raised out of call_agent.
C8_FailuresIsolated ==
    \A i \in Calls :
        err[i] \notin {"HTTPStatusError", "KeyError", "A2AClientHTTPError",
                       "AgentCardResolutionError"}

\* C9: no secret-store lookup, token request or agent-card request is issued
\* while the registry of sub-agents is built: an invocation that has issued
\* one is already running its turn.
C9_NetworkDeferred ==
    \A i \in Calls : NetRequests(i) # {} => runner[i] # None

\* C10: an invocation that has initialised the root agent has issued exactly
\* one agent-card GET per sub-agent, and the card bound to the sub-agent is
\* the one that GET returned.
C10_CardFetchedOnce ==
    \A i \in Calls :
        InitDone(i) =>
            \A a \in Agents :
                /\ Cardinality(Requests(i, "card", a)) = 1
                /\ local_root[i].sub_agents[a].agent_card = AgentCard(i, a, 1)

\* C11: for a well-formed remote response (at least one event, every event
\* a Message or a (Task, UpdateEvent-or-None) pair) send_sync_message returns
\* exactly one reply, the Message itself or the Task of the pair, and takes
\* no event after the first.
WellFormed(st) == Len(st) >= 1 /\ \A n \in 1..Len(st) : IsMessage(st[n]) \/ IsPair(st[n])

C11_ExactlyOneReply ==
    (ss_pc \in {"returned", "raised"} /\ WellFormed(stream)) =>
        /\ ss_pc = "returned"
        /\ ss_ret.kind = "return"
        /\ ss_ret.value # PyNone
        /\ consumed = 1
        /\ ss_ret.value = IF stream[1].shape = "message"
                          THEN stream[1]
                          ELSE [shape |-> "task", id |-> stream[1].id]

C11_Witness ==
    /\ ss_pc = "returned"
    /\ Len(stream) >= 2
    /\ stream[1].shape = "pair_none"
    /\ ss_ret.value = [shape |-> "task", id |-> 1]

\* C15 as claimed: a first event that is neither a Message nor a pair makes
\* send_sync_message raise.
C15_OtherShapeRaises ==
    (consumed >= 1 /\ stream[1].shape = "other") => ss_ret.kind = "raise"

\* C15 as amended: a first event that is neither a Message nor a pair is
\* returned to the caller unchanged, and no error is raised for it.
C15_OtherShapeReturned ==
    (consumed >= 1 /\ stream[1].shape = "other") =>
        ss_ret = [kind |-> "return", exc |-> "", value |-> stream[1]]

C15_Witness ==
    /\ ss_pc = "returned"
    /\ consumed = 1
    /\ stream[1].shape = "other"
    /\ ss_ret.value.shape = "other"

\* C12 as claimed: whenever the artifacts list is non-empty, the result is
\* the text of artifacts[0].parts[0].
C12_ArtifactAlwaysUsed ==
    (fmt_pc = "called" /\ Len(response.artifacts) > 0) =>
        /\ Len(response.artifacts[1].parts) > 0
        /\ formatted = Returned(response.artifacts[1].parts[1].text)

\* C12 as amended: when the first artifact has a part and that part is a
\* text part, the result is its text, whatever the history contains; when
\* the first artifact has no parts the result is the one of the same reply
\* without artifacts, that is, the history fallback.
C12_ArtifactTextPreferred ==
    fmt_pc = "called" =>
        /\ (/\ Len(response.artifacts) > 0
            /\ Len(response.artifacts[1].parts) > 0
            /\ response.artifacts[1].parts[1].kind = "text") =>
               formatted = Returned(response.artifacts[1].parts[1].text)
        /\ (/\ Len(response.artifacts) > 0
            /\ Len(response.artifacts[1].parts) = 0) =>
               formatted = format_agent_response([response EXCEPT !.artifacts = << >>])

C12_Witness ==
    /\ fmt_pc = "called"
    /\ Len(response.artifacts) > 0
    /\ Len(response.artifacts[1].parts) > 0
    /\ response.artifacts[1].parts[1] = [kind |-> "text", text |-> << "a" >>]
    /\ \E n \in 1..Len(response.history) :
           /\ response.history[n].role = "agent"
           /\ Len(response.history[n].parts) > 0
           /\ response.history[n].parts[1] = [kind |-> "text", text |-> << "b" >>]
    /\ formatted = Returned(<< "a" >>)

\* The text of all the parts of all the agent messages, in history order.
RECURSIVE FullAgentText(_)
FullAgentText(h) ==
    IF h = << >>
    THEN << >>
    ELSE (IF Head(h).role = "agent"
          THEN Concat([n \in 1..Len(Head(h).parts) |-> Head(h).parts[n].text])
          ELSE << >>) \o FullAgentText(Tail(h))

\* C13: with no artifacts and a non-empty history of text messages, the
\* result is the concatenation, in history order, of the full text of every
\* agent message.
C13_FullAgentText ==
    (/\ fmt_pc = "called"
     /\ response.artifacts = << >>
     /\ response.has_history
     /\ response.history # << >>
     /\ \A n \in 1..Len(response.history) :
            \A m \in 1..Len(response.history[n].parts) :
                response.history[n].parts[m].kind = "text") =>
        formatted = Returned(FullAgentText(response.history))

\* C14: format_agent_response never returns an empty answer.
C14_EmptyIsError ==
    fmt_pc = "called" => ~(formatted.kind = "return" /\ formatted.text = << >>)

\* str.split(" ") and the non-empty pieces of it.
RECURSIVE SplitOnSpace(_)
SplitOnSpace(t) ==
    IF t = << >>
    THEN << << >> >>
    ELSE LET rest == SplitOnSpace(Tail(t))
         IN  IF Head(t) = " "
             THEN << << >> >> \o rest
             ELSE << << Head(t) >> \o Head(rest) >> \o Tail(rest)

Tokens(t) == SelectSeq(SplitOnSpace(t), LAMBDA x : x # << >>)

\* C16: the posted scope string consists of exactly N space-separated
\* tokens, the n-th being resource_server_identifier "/" n-th scope, and the
\* three copies of get_bearer_token build the same string.
C16_ScopeString ==
    tok_pc # "idle" =>
        /\ Len(Tokens(token_data.scope)) = Len(idp_config.scopes)
        /\ Tokens(token_data.scope) =
               [n \in 1..Len(idp_config.scopes) |->
                    idp_config.resource_server_identifier \o << "/" >>
                        \o idp_config.scopes[n]]
        /\ \A c \in Copies : scope_str(c, idp_config) = token_data.scope

C16_Witness ==
    /\ tok_pc # "idle"
    /\ Len(idp_config.scopes) = 2
    /\ idp_config.scopes[1] # idp_config.scopes[2]
    /\ token_data.scope = << "a", "/", "b", " ", "a", "/", "a" >>

\* C17: get_bearer_token returns a token exactly when the answer is 2xx and
\* holds access_token; otherwise it raises and returns nothing; either way
\* exactly one POST was sent.
C17_TokenOnlyOnSuccess ==
    /\ posts <= 1
    /\ tok_pc # "idle" => posts = 1
    /\ (tok_pc \in {"returned", "raised"} /\ answer # NoAnswer) =>
           /\ tok_ret.kind = "return" <=>
                  (answer.status \in 200..299 /\ answer.body = "access_token")
           /\ tok_ret.kind = "return" => (tok_pc = "returned" /\ tok_ret.token = "token")
           /\ tok_ret.kind # "return" =>
                  (tok_pc = "raised" /\ tok_ret.kind = "raise" /\ tok_ret.token = "")

C17_Witness ==
    /\ tok_pc = "raised"
    /\ answer.status = 401
    /\ posts = 1
    /\ tok_ret.exc = "HTTPStatusError"

\* C18: every event call_agent yields is an event of the orchestrator's own
\* reasoning or a pass-through of a sub-agent's reply tagged with that
\* sub-agent, in every invocation.
C18_OnlyAgentEvents ==
    \A i \in Calls : \A n \in 1..Len(out[i]) :
        \/ out[i][n] = Event("own", 0)
        \/ out[i][n].kind = "sub" /\ out[i][n].agent \in Agents

PairwiseDistinct(names) ==
    \A m, n \in 1..Len(names) : m # n => names[m] # names[n]

\* C19: for a configuration of pairwise distinct names the proxies have
\* pairwise distinct names and agents_info has one entry per configured
\* agent.
C19_ProxyNamesUnique ==
    (reg_pc = "done" /\ PairwiseDistinct(reg_config)) =>
        /\ PairwiseDistinct([n \in 1..Len(reg_subs) |-> reg_subs[n].name])
        /\ Cardinality(DOMAIN agents_info) = Len(reg_config)

SubAgentNames(agent) == [n \in 1..Len(agent.sub_agents) |-> agent.sub_agents[n].name]

ConfigOrder == [n \in Agents |-> Lower(config[n].name)]

InOrder(agent) ==
    /\ SubAgentNames(agent) = ConfigOrder
    /\ agent.instruction =
           [n \in Agents |-> << Lower(config[n].name), config[n].description >>]

\* C20: the sub_agents of a built root agent and the agent list of its
\* instruction follow the order of the configuration, and once a root agent
\* is built no step adds, removes or reorders a sub-agent of it.
C20_State ==
    /\ root_agent # None => InOrder(root_agent)
    /\ \A i \in Calls :
           /\ local_root[i] # None => InOrder(local_root[i])
           /\ runner[i] # None => InOrder(runner[i])

C20_Step ==
    /\ root_agent # None =>
           /\ root_agent' # None
           /\ SubAgentNames(root_agent') = SubAgentNames(root_agent)
           /\ root_agent'.instruction = root_agent.instruction
    /\ \A i \in Calls :
           /\ local_root[i] # None =>
                  /\ local_root'[i] # None
                  /\ SubAgentNames(local_root'[i]) = SubAgentNames(local_root[i])
           /\ runner[i] # None => runner'[i] = runner[i]

C20_RegistryOrderedAndStable == []C20_State /\ [][C20_Step]_vars

C20_Witness ==
    \E i, j \in Calls :
        /\ i < j
        /\ InitDone(i)
        /\ pc[j] = "done"
        /\ runner[j] = root_agent
        /\ \E n \in 1..Len(log[j]) : log[j][n].kind = "send" /\ log[j][n].agent = 2
        /\ SubAgentNames(root_agent) = << "monitoring_agent", "opsremediation_agent" >>

\* The requests of invocation i that create_simple_client_factory issues.
FirstCards(i) == {n \in 1..Len(log[i]) : log[i][n].kind = "card" /\ log[i][n].n = 1}

\* C21: within one initialisation every sub-agent has its own token request
\* and its own client, its factory wraps that client only, and no token or
\* client belongs to two sub-agents.
C21_OwnershipPartitioned ==
    \A i \in Calls :
        LET subs == sub_agents[i]
        IN  /\ \A n \in 1..Len(subs) :
                   /\ Cardinality(Requests(i, "token", n)) = 1
                   /\ subs[n].factory.client.agent = n
                   /\ subs[n].factory.client.token = BearerToken(i, n)
                   /\ subs[n].factory.client.token.agent = n
                   /\ \E c \in FirstCards(i) : log[i][c].client = subs[n].factory.client
            /\ \A m, n \in 1..Len(subs) :
                   m # n =>
                       /\ subs[m].factory.client # subs[n].factory.client
                       /\ subs[m].factory.client.token # subs[n].factory.client.token
            /\ \A n \in 1..Len(log[i]) :
                   log[i][n].client # NoClient => log[i][n].client.agent = log[i][n].agent

C21_Witness ==
    \E i \in Calls :
        /\ pc[i] = "done"
        /\ Len(sub_agents[i]) = NumAgents
        /\ Sends(i) # {}
        /\ sub_agents[i][1].factory.client.token.agent = 1
        /\ sub_agents[i][2].factory.client.token.agent = 2

\* C24: per sub-agent the IDP-config lookup, the token request and the card
\* GET are issued in this order, each only after the step before succeeded;
\* the card GET goes through a client carrying that token and the session
\* id, the factory is built only after the card arrived, and no card request
\* goes without the token and the session id.
C24_ResolutionOrder ==
    \A i \in Calls :
        /\ \A n \in 1..Len(log[i]) :
               LET req == log[i][n]
               IN  /\ req.kind = "token" =>
                          /\ n > 1
                          /\ log[i][n - 1] = Request("ssm", req.agent, NoClient, 1)
                   /\ (req.kind = "card" /\ req.n = 1) =>
                          /\ n > 2
                          /\ log[i][n - 1] = Request("token", req.agent, NoClient, 1)
                          /\ log[i][n - 2] = Request("ssm", req.agent, NoClient, 1)
                          /\ Len(sub_agents[i]) >= req.agent - 1
                   /\ req.kind = "card" =>
                          /\ req.client.token = BearerToken(i, req.agent)
                          /\ req.client.token # NoToken
                          /\ req.client.sid = session_id[i]
                          /\ req.client.sid # ""
        /\ err[i] = "ParameterNotFound" => log[i][Len(log[i])].kind = "ssm"
        /\ err[i] \in {"HTTPStatusError", "KeyError"} => log[i][Len(log[i])].kind = "token"
        /\ Len(sub_agents[i]) <= Cardinality(FirstCards(i))
        /\ err[i] = "A2AClientHTTPError" =>
               /\ log[i][Len(log[i])].kind = "card"
               /\ Len(sub_agents[i]) = Cardinality(FirstCards(i)) - 1

C24_Witness ==
    \E i \in Calls :
        /\ err[i] = "HTTPStatusError"
        /\ Len(sub_agents[i]) = 1
        /\ Cardinality(FirstCards(i)) = 1
        /\ Cardinality(Requests(i, "token", 2)) = 1

\* C27: the session store holds at most one session per session id: a
\* session is created only when the lookup finds none and only by an
\* invocation whose prompt passed the check, and a later invocation with the
\* same session id reuses it.
C27_OneSessionPerId ==
    \A s \in SessionIds :
        /\ created[s] <= 1
        /\ created[s] = 1 <=> s \in session_store
        /\ s \in session_store =>
               \E i \in Calls :
                   /\ session_id[i] = s
                   /\ prompt[i] # ""
                   /\ pc[i] \in {"running", "done"}
        /\ \A i \in Calls :
               (session_id[i] = s /\ pc[i] \in {"running", "done"}) => s \in session_store

C27_Witness ==
    \E i, j \in Calls :
        /\ i < j
        /\ session_id[i] = session_id[j]
        /\ pc[i] = "done"
        /\ pc[j] = "done"
        /\ created[session_id[i]] = 1

HasKey(keys) == "GOOGLE_API_KEY" \in DOMAIN keys

\* C26 as stated: load_api_keys_from_ssm never raises; the result holds the
\* SSM value when a path is configured and retrieval succeeds, otherwise the
\* environment variable's value when that is set, otherwise the key is
\* absent.
C26_EnvValueWhenSet ==
    ak_pc \in {"returned", "raised"} =>
        /\ ak_ret = "returned"
        /\ IF Truthy(param_path) /\ ssm_answer.kind = "ok"
           THEN HasKey(api_keys) /\ api_keys["GOOGLE_API_KEY"] = ssm_answer.value
           ELSE IF env_value.set
           THEN HasKey(api_keys) /\ api_keys["GOOGLE_API_KEY"] = env_value.value
           ELSE ~HasKey(api_keys)

\* C26 amended: as above, but the environment variable's value is taken only
\* when it is set to a non-empty string; set to the empty string, the key is
\* absent.
C26_EnvValueWhenNotEmpty ==
    ak_pc \in {"returned", "raised"} =>
        /\ ak_ret = "returned"
        /\ IF Truthy(param_path) /\ ssm_answer.kind = "ok"
           THEN HasKey(api_keys) /\ api_keys["GOOGLE_API_KEY"] = ssm_answer.value
           ELSE IF env_value.set /\ env_value.value # << >>
           THEN HasKey(api_keys) /\ api_keys["GOOGLE_API_KEY"] = env_value.value
           ELSE ~HasKey(api_keys)
        /\ Truthy(param_path) <=> Len(ak_log) = 1
        /\ ~Truthy(param_path) => ssm_answer = NoSsmAnswer

C26_Witness ==
    /\ ak_pc = "returned"
    /\ ssm_answer.kind = "AccessDeniedException"
    /\ env_value = Some(<< "a" >>)
    /\ HasKey(api_keys)
    /\ api_keys["GOOGLE_API_KEY"] = << "a" >>

\* C25: current_session_id is the id current_session was created with; a
\* call creates a memory session exactly when a resume_key is given and the
\* id derived from (resume_key, job_description_key) differs from
\* current_session_id; a call without resume_key changes neither global.
C25_State ==
    /\ current_session.session_id = current_session_id
    /\ current_session = NoMemorySession <=> ~current_session_id.set

C25_Step ==
    /\ create_called' <=>
           /\ resume_key'.set
           /\ resume_key'.value # << >>
           /\ [set |-> TRUE, value |-> md5_16(SessionData(resume_key', job_description_key'))]
                  # current_session_id
    /\ ~(resume_key'.set /\ resume_key'.value # << >>) =>
           UNCHANGED << current_session, current_session_id >>
    /\ current_session_id' # current_session_id =>
           /\ create_called'
           /\ gs_ret' = "returned"
           /\ current_session_id'.value =
                  md5_16(SessionData(resume_key', job_description_key'))
    /\ ~create_called' => UNCHANGED << current_session, current_session_id >>

C25_SessionFollowsDocuments == []C25_State /\ [][C25_Step]_vars

C25_Witness ==
    /\ ~create_called
    /\ gs_ret = "returned"
    /\ resume_key = Some(<< "r" >>)
    /\ job_description_key = Some(<< "j", "_", "j" >>)
    /\ current_session_id = [set |-> TRUE, value |-> md5_16(<< "r", "_", "j", "_", "j" >>)]
    /\ current_session = MemorySession(md5_16(<< "r", "_", "j", "_", "j" >>))

\* The name announced last after the events evs: none after a data event.
RECURSIVE Announced(_)
Announced(evs) ==
    IF evs = << >>
    THEN "None"
    ELSE LET e == evs[Len(evs)]
         IN  IF e.data # "absent" THEN "None"
             ELSE IF e.tool # "absent" THEN e.tool
             ELSE Announced(SubSeq(evs, 1, Len(evs) - 1))

\* The n-th event carries a tool whose name differs from the one announced last.
NoticeDue(evs, n) ==
    /\ evs[n].tool # "absent"
    /\ evs[n].tool # Announced(SubSeq(evs, 1, n - 1))

ExpectedItems(evs) ==
    Concat([n \in 1..Len(evs) |->
                (IF NoticeDue(evs, n) THEN << [kind |-> "notice", text |-> evs[n].tool] >>
                 ELSE << >>)
                    \o (IF evs[n].data # "absent"
                        THEN << [kind |-> "data", text |-> evs[n].data] >>
                        ELSE << >>)])

IsError(item) == item.kind = "error"
IsData(item) == item.kind = "data"
NotError(item) == item.kind # "error"

\* C28: the stream of invoke holds a tool notice exactly for the events whose
\* tool name differs from the name announced last, a data event resets the
\* announced name, and the data chunks are forwarded unchanged and in order.
C28_NoticeOnToolChange ==
    inv_pc \in {"streaming", "done"} /\ inv_failure \in {"", "agent_stream"} =>
        /\ SelectSeq(items, NotError) = ExpectedItems(consumed_events)
        /\ tool_name = Announced(consumed_events)
        /\ LET data == SelectSeq(items, IsData)
               sent == SelectSeq(consumed_events, LAMBDA e : e.data # "absent")
           IN  /\ Len(data) = Len(sent)
               /\ \A n \in 1..Len(data) : data[n].text = sent[n].data
        /\ \A n \in 1..Len(items) : IsError(items[n]) => n = Len(items)

C28_Witness ==
    /\ inv_pc = "done"
    /\ consumed_events = << [tool |-> "X", data |-> "absent"],
                            [tool |-> "X", data |-> "d1"],
                            [tool |-> "X", data |-> "absent"] >>
    /\ items = << [kind |-> "notice", text |-> "X"],
                  [kind |-> "data", text |-> "d1"],
                  [kind |-> "notice", text |-> "X"] >>

\* C29: invoke never raises to its caller; every failure ends the stream
\* with one final "Error: <message>" item, and a document payload without
\* resume_key yields that error with no download and no memory session
\* created.
C29_ErrorsBecomeItems ==
    /\ ~inv_raised
    /\ inv_pc = "streaming" =>
           /\ inv_failure = ""
           /\ \A n \in 1..Len(items) : ~IsError(items[n])
    /\ inv_pc = "done" =>
           /\ inv_failure # "" =>
                  /\ items # << >>
                  /\ items[Len(items)] = [kind |-> "error", text |-> inv_failure]
                  /\ Cardinality({n \in 1..Len(items) : IsError(items[n])}) = 1
           /\ inv_failure = "" => \A n \in 1..Len(items) : ~IsError(items[n])
           /\ (payload.kind = "document" /\ ~Truthy(payload.resume_key)) =>
                  /\ items = << [kind |-> "error",
                                 text |-> "resume_key is required in payload"] >>
                  /\ downloads = << >>
                  /\ inv_created = << >>
           /\ payload.kind # "document" => (downloads = << >> /\ inv_created = << >>)

C29_Witness ==
    /\ inv_pc = "done"
    /\ inv_failure = "agent_stream"
    /\ Len(items) = 3
    /\ items[1].kind = "notice"
    /\ items[2].kind = "data"
    /\ items[3] = [kind |-> "error", text |-> "agent_stream"]
    /\ payload.kind = "document"
    /\ Len(downloads) = 2
    /\ Len(inv_created) = 1

\* The clients create_simple_client_factory has opened (one before each of
\* its card GETs) and nothing has closed: neither it, get_root_agent nor
\* call_agent closes a client, on success or on failure.
OpenClients == UNION {{<< i, n >> : n \in FirstCards(i)} : i \in Calls}

\* C30: the open clients never outnumber the configured sub-agents, whatever
\* sequence of failed and successful initialisation attempts has run.
C30_ClientsDoNotAccumulate == Cardinality(OpenClients) <= NumAgents

====
